---- MODULE Spec2Model ----
(***************************************************************************)
(* A model of steamy.py: the bounded retry wrapper retry_request, the way  *)
(* the client operations of SteamAPI / SteamMarketAPI use it, and the      *)
(* market item-name parser SteamMarketAPI.parse_item_name.                 *)
(*                                                                         *)
(* Strings are sequences of characters.  A character is written as a TLA+  *)
(* string; "TM" stands for the single character U+2122 (the trade mark     *)
(* sign of "StatTrak(TM)") and "STAR" for U+2605 (the star that prefixes   *)
(* knife names).                                                           *)
(***************************************************************************)
EXTENDS Integers, Sequences, FiniteSets, TLC

VARIABLES
    name,       \* parse_item_name: the argument `name`
    ppc,        \* parse_item_name: "ready" before the call, "done" after it
    res,        \* parse_item_name: the outcome (a returned tuple or an exception)
    op,         \* the caller of retry_request: "direct" or a client operation
    retries,    \* SteamMarketAPI.retries of the client the operation runs on
    rpc,        \* position in the call: idle/loop/try/sleep/returned/raised/finished
    count,      \* retry_request: the parameter count
    i,          \* retry_request: iterations of `for _ in range(count)` started
    calls,      \* invocations of the action f
    sleeps,     \* calls of time.sleep(delay)
    hist,       \* the outcome of every invocation of f, in order
    ret,        \* what retry_request returned
    opOut       \* how the client operation ended

vars == <<name, ppc, res, op, retries, rpc, count, i, calls, sleeps, hist, ret, opOut>>

parseVars == <<name, ppc, res>>
retryVars == <<op, retries, rpc, count, i, calls, sleeps, hist, ret, opOut>>

----------------------------------------------------------------------------
(* Bounds of the model *)

\* longest free-form middle part of a generated item name, in pieces
MaxPieces == 3

\* largest count a direct caller passes to retry_request
MaxCount == 5

----------------------------------------------------------------------------
(* Python's None *)

None == <<"None">>

----------------------------------------------------------------------------
(* Characters *)

\* the characters the generated names are written in
Alphabet ==
    {" ", "(", ")", "|", "A", "K", "M", "S", "T",
     "a", "b", "c", "e", "h", "i", "k", "l", "m", "o", "r", "s", "t", "u",
     "TM", "STAR"}

\* ord(c)
Ord(c) ==
    CASE c = " " -> 32   [] c = "(" -> 40   [] c = ")" -> 41   [] c = "|" -> 124
      [] c = "A" -> 65   [] c = "K" -> 75   [] c = "M" -> 77   [] c = "S" -> 83
      [] c = "T" -> 84   [] c = "a" -> 97   [] c = "b" -> 98   [] c = "c" -> 99
      [] c = "e" -> 101  [] c = "h" -> 104  [] c = "i" -> 105  [] c = "k" -> 107
      [] c = "l" -> 108  [] c = "m" -> 109  [] c = "o" -> 111  [] c = "r" -> 114
      [] c = "s" -> 115  [] c = "t" -> 116  [] c = "u" -> 117
      [] c = "TM" -> 8482
      [] c = "STAR" -> 9733

\* unichr(n)
Chr(n) == CHOOSE c \in Alphabet : Ord(c) = n

\* c.lower() for one character: the upper-case letters move to lower case
LowerChar(c) == IF Ord(c) \in 65..90 THEN Chr(Ord(c) + 32) ELSE c

\* the characters str.strip() removes
IsSpace(c) == c = " "

----------------------------------------------------------------------------
(* The str methods the parser uses *)

\* s.startswith(p)
StartsWith(s, p) == Len(s) >= Len(p) /\ SubSeq(s, 1, Len(p)) = p

\* s.find(sub) + 1: the first position where sub occurs in s, 0 when none
Find(s, sub) ==
    LET hits == {k \in 1..(Len(s) - Len(sub) + 1) : SubSeq(s, k, k + Len(sub) - 1) = sub}
    IN  IF hits = {} THEN 0 ELSE CHOOSE k \in hits : \A j \in hits : k <= j

\* sub in s
Contains(s, sub) == Find(s, sub) # 0

\* s.split(sep, max); max = -1 is "no limit"
RECURSIVE Split(_, _, _)
Split(s, sep, max) ==
    IF max = 0 THEN <<s>>
    ELSE LET k == Find(s, sep)
         IN  IF k = 0 THEN <<s>>
             ELSE <<SubSeq(s, 1, k - 1)>>
                  \o Split(SubSeq(s, k + Len(sep), Len(s)), sep, max - 1)

\* s.replace(old, new)
RECURSIVE Replace(_, _, _)
Replace(s, old, new) ==
    LET k == Find(s, old)
    IN  IF k = 0 THEN s
        ELSE SubSeq(s, 1, k - 1) \o new
             \o Replace(SubSeq(s, k + Len(old), Len(s)), old, new)

\* s.strip()
Strip(s) ==
    LET keep == {k \in 1..Len(s) : ~IsSpace(s[k])}
    IN  IF keep = {} THEN <<>>
        ELSE SubSeq(s, CHOOSE k \in keep : \A j \in keep : k <= j,
                       CHOOSE k \in keep : \A j \in keep : k >= j)

\* s.lower()
Lower(s) == [k \in 1..Len(s) |-> LowerChar(s[k])]

\* filter(lambda i: ord(i) <= 256, name)
RECURSIVE StripUnicode(_)
StripUnicode(s) ==
    IF s = <<>> THEN <<>>
    ELSE (IF Ord(Head(s)) <= 256 THEN <<Head(s)>> ELSE <<>>) \o StripUnicode(Tail(s))

----------------------------------------------------------------------------
(* The literals of parse_item_name *)

Sticker == <<"S", "t", "i", "c", "k", "e", "r">>
MusicKit == <<"M", "u", "s", "i", "c", " ", "K", "i", "t">>
StatTrak == <<"S", "t", "a", "t", "T", "r", "a", "k">>
Holo == <<"(", "h", "o", "l", "o", ")">>
sticker == <<"s", "t", "i", "c", "k", "e", "r">>
musickit == <<"m", "u", "s", "i", "c", "k", "i", "t">>
Pipe == <<"|">>
SpacedPipe == <<" ", "|", " ">>
Space == <<" ">>
LParen == <<"(">>
RParen == <<")">>

----------------------------------------------------------------------------
(* SteamMarketAPI.parse_item_name *)

\* xs[-1]
Last(xs) == xs[Len(xs)]

\* a normalisation that forgets lower()
Normalise_NoLower(s) ==
    LET t == Strip(s)
    IN  IF t = <<>> THEN None ELSE t

\* r.lower().strip() or None
Normalise(s) ==
    LET t == Strip(Lower(s))
    IN  IF t = <<>> THEN None ELSE t

\* the tuple of the return statement, and whether the warning was logged
Returned(r_item, r_skin, r_wear, r_stat, r_holo, r_mkit, parsed) ==
    [exc           |-> "none",
     category      |-> Normalise(r_item),
     skin          |-> Normalise(r_skin),
     wear          |-> Normalise(r_wear),
     isStatTrak    |-> r_stat,
     isHolographic |-> r_holo,
     isMusicKit    |-> r_mkit,
     warned        |-> ~parsed]

\* the call ends with an exception of type e
Raised(e) == [exc |-> e]

\* the branch of names that start with "Sticker"
StickerCase(n) ==
    LET r_skin == Last(Split(n, Pipe, 1))
    IN  IF Contains(r_skin, Holo)
        THEN \* r_skin.replace("(holo)"): str.replace takes at least two arguments
             Raised("TypeError")
        ELSE IF Contains(r_skin, Pipe)
             THEN LET p == Split(r_skin, Pipe, 1)
                  IN  Returned(sticker, p[1], p[2], FALSE, FALSE, FALSE, TRUE)
             ELSE Returned(sticker, r_skin, <<>>, FALSE, FALSE, FALSE, TRUE)

\* the branch of names that start with "Music Kit"; it leaves parsed False
MusicKitCase(n) ==
    Returned(musickit, Last(Split(n, Pipe, 1)), <<>>, FALSE, FALSE, TRUE, FALSE)

\* r_item of the general branch
GeneralItem(start) ==
    IF StartsWith(Strip(start), StatTrak)
    THEN Last(Split(start, Space, 2))
    ELSE Strip(start)

\* a wear that keeps its closing parenthesis
GeneralWear_KeepsParen(ext) == ext

\* r_wear of the general branch: ext.replace(")", "")
GeneralWear(ext) == Replace(ext, RParen, <<>>)

\* the general branch
GeneralCase(n) ==
    LET hasPipe == Contains(n, Pipe)
        parts   == IF hasPipe THEN Split(n, SpacedPipe, -1) ELSE <<n, <<>>>>
    IN  IF Len(parts) # 2
        THEN \* start, end = name.split(" | ") does not unpack
             Raised("ValueError")
        ELSE LET start  == parts[1]
                 end    == parts[2]    \* None and "" are both false in `if end`
                 r_stat == StartsWith(Strip(start), StatTrak)
                 r_item == GeneralItem(start)
             IN  IF end # <<>>
                 THEN LET e == Split(end, LParen, -1)
                      IN  IF Len(e) # 2
                          THEN \* r_skin, ext = end.split("(") does not unpack
                               Raised("ValueError")
                          ELSE Returned(r_item, e[1], GeneralWear(e[2]),
                                        r_stat, FALSE, FALSE, TRUE)
                 ELSE Returned(r_item, <<>>, <<>>, r_stat, FALSE, FALSE, TRUE)

parse_item_name(raw) ==
    LET n == StripUnicode(raw)
    IN  IF StartsWith(Strip(n), Sticker) THEN StickerCase(n)
        ELSE IF StartsWith(Strip(n), MusicKit) THEN MusicKitCase(n)
        ELSE GeneralCase(n)

----------------------------------------------------------------------------
(* The item names the parser is run on: a start, up to MaxPieces free     *)
(* pieces, and an optional wear suffix                                     *)

AK == <<"A", "K">>
Ab == <<"A", "b">>
TM == <<"TM">>
STAR == <<"STAR">>

Heads ==
    {<<>>,
     AK,
     STAR \o Space \o AK,
     Sticker,
     Space \o Sticker,
     MusicKit,
     StatTrak,
     StatTrak \o TM \o Space \o AK,
     StatTrak \o TM \o Space \o Ab \o Space \o AK,
     STAR \o Space \o StatTrak \o TM \o Space \o AK}

BodyPieces == {SpacedPipe, Pipe, Space, LParen, RParen, Holo, Ab, TM}

Tails == {<<>>, Space \o LParen \o AK \o RParen}

RECURSIVE Flatten(_)
Flatten(ps) == IF ps = <<>> THEN <<>> ELSE Head(ps) \o Flatten(Tail(ps))

Bodies == UNION {{Flatten(b) : b \in [1..n -> BodyPieces]} : n \in 0..MaxPieces}

Names == {h \o b \o t : h \in Heads, b \in Bodies, t \in Tails}

----------------------------------------------------------------------------
(* The parser as a state machine: one call on one name *)

\* no client operation has ended yet
NoOutcome == [kind |-> "pending", exc |-> "none", namesOp |-> FALSE, namesKey |-> FALSE]

NoRetry ==
    /\ op = "none" /\ retries = 0 /\ rpc = "idle" /\ count = 0 /\ i = 0
    /\ calls = 0 /\ sleeps = 0 /\ hist = <<>> /\ ret = None /\ opOut = NoOutcome

ParseInit ==
    /\ name \in Names
    /\ ppc = "ready"
    /\ res = Raised("pending")
    /\ NoRetry

Parse ==
    /\ ppc = "ready"
    /\ res' = parse_item_name(name)
    /\ ppc' = "done"
    /\ UNCHANGED <<name, retryVars>>

ParseNext == Parse

SpecParse == ParseInit /\ [][ParseNext]_vars

----------------------------------------------------------------------------
(* retry_request and the client operations that call it *)

\* def retry_request(f, count=1, delay=60)
DefaultCount == 1

\* SteamMarketAPI.__init__(self, appid, key=None, retries=5)
DefaultRetries == 5

\* the exceptions the except clause of retry_request catches
Failures == {"RequestException", "HTTPError"}

SteamAPIOps == {"get_group_members", "get_workshop_file"}

MarketOps ==
    {"get_inventory", "get_item_count", "list_items", "get_item_meta",
     "get_bulkitem_price", "get_historical_price_data",
     "get_item_price_history", "get_item_price"}

ClientOps == SteamAPIOps \cup MarketOps

\* the count a client operation passes to retry_request: every call site is
\* retry_request(lambda f: ...), so count takes its default; the client's
\* retries setting r is stored by __init__ and read nowhere
OperationCount(o, r) == DefaultCount

\* the response object the k-th invocation of f produced
Response(k) == <<"response", k>>

\* a loop that runs once too often
LoopRuns_OneMore(k, n) == k <= n

\* for _ in range(count): whether iteration number k + 1 runs
LoopRuns(k, n) == k < n

\* an exception raised with message m, or a normal return of value v
Raise(e, namesOp, namesKey) ==
    [kind |-> "raised", exc |-> e, namesOp |-> namesOp, namesKey |-> namesKey]

Return(v) == [kind |-> "returned", exc |-> v, namesOp |-> FALSE, namesKey |-> FALSE]

\* what each operation does with `r`, the result of retry_request, when it
\* is None; with a response the rest of the body runs (not modelled)
OperationOutcome(o, r) ==
    IF r # None
    THEN [kind |-> "continued", exc |-> "none", namesOp |-> FALSE, namesKey |-> FALSE]
    ELSE CASE o = "get_group_members" -> Raise("SteamAPIError", TRUE, TRUE)
           [] o = "get_workshop_file" ->
                  \* PyQuery(r.content) is evaluated before any test of r
                  Raise("AttributeError", FALSE, FALSE)
           [] o = "get_inventory" ->
                  \* the message is formatted with the builtin `id`, not steamid
                  Raise("SteamAPIError", TRUE, FALSE)
           [] o = "get_item_count" -> Raise("SteamAPIError", TRUE, TRUE)
           [] o = "list_items" -> Return("None")
           [] o = "get_item_meta" -> Raise("SteamAPIError", TRUE, TRUE)
           [] o = "get_bulkitem_price" -> Raise("SteamAPIError", TRUE, TRUE)
           [] o = "get_historical_price_data" -> Raise("Exception", TRUE, TRUE)
           [] o = "get_item_price_history" -> Raise("SteamAPIError", TRUE, TRUE)
           [] o = "get_item_price" -> Return("zero prices")

NotParsing == name = <<>> /\ ppc = "ready" /\ res = Raised("pending")

Init == NotParsing /\ NoRetry

\* retry_request(f, count=n) called directly
CallDirect(n) ==
    /\ rpc = "idle"
    /\ op' = "direct"
    /\ count' = n
    /\ rpc' = "loop"
    /\ UNCHANGED <<retries, i, calls, sleeps, hist, ret, opOut, parseVars>>

\* retry_request(f) called directly
CallDirectDefault ==
    /\ rpc = "idle"
    /\ op' = "direct_default"
    /\ count' = DefaultCount
    /\ rpc' = "loop"
    /\ UNCHANGED <<retries, i, calls, sleeps, hist, ret, opOut, parseVars>>

\* operation o of a SteamAPI, or of a SteamMarketAPI built with retries = r,
\* runs up to its call of retry_request
CallOperation(o, r) ==
    /\ rpc = "idle"
    /\ op' = o
    /\ retries' = IF o \in MarketOps THEN r ELSE 0
    /\ count' = OperationCount(o, r)
    /\ rpc' = "loop"
    /\ UNCHANGED <<i, calls, sleeps, hist, ret, opOut, parseVars>>

\* the head of the for loop, and `return None` after it
Loop ==
    /\ rpc = "loop"
    /\ IF LoopRuns(i, count)
       THEN i' = i + 1 /\ rpc' = "try" /\ ret' = ret
       ELSE i' = i /\ rpc' = "returned" /\ ret' = None
    /\ UNCHANGED <<op, retries, count, calls, sleeps, hist, opOut, parseVars>>

\* a success that is recorded without leaving the loop
AttemptOk_NoReturn ==
    /\ rpc = "try"
    /\ calls' = calls + 1
    /\ hist' = Append(hist, "ok")
    /\ ret' = Response(calls + 1)
    /\ rpc' = "loop"
    /\ UNCHANGED <<op, retries, count, i, sleeps, opOut, parseVars>>

\* r = f(requests); r.raise_for_status(); return r
AttemptOk ==
    /\ rpc = "try"
    /\ calls' = calls + 1
    /\ hist' = Append(hist, "ok")
    /\ ret' = Response(calls + 1)
    /\ rpc' = "returned"
    /\ UNCHANGED <<op, retries, count, i, sleeps, opOut, parseVars>>

\* f raises a RequestException, or raise_for_status an HTTPError: the except
\* clause logs, sleeps for the delay and the loop goes on
AttemptFail(e) ==
    /\ rpc = "try"
    /\ calls' = calls + 1
    /\ hist' = Append(hist, e)
    /\ sleeps' = sleeps + 1
    /\ rpc' = "loop"
    /\ UNCHANGED <<op, retries, count, i, ret, opOut, parseVars>>

\* f raises an exception the except clause does not catch
AttemptOther ==
    /\ rpc = "try"
    /\ calls' = calls + 1
    /\ hist' = Append(hist, "other")
    /\ rpc' = "raised"
    /\ UNCHANGED <<op, retries, count, i, sleeps, ret, opOut, parseVars>>

\* the client operation goes on with the result of retry_request
Finish ==
    /\ rpc = "returned"
    /\ op \in ClientOps
    /\ opOut' = OperationOutcome(op, ret)
    /\ rpc' = "finished"
    /\ UNCHANGED <<op, retries, count, i, calls, sleeps, hist, ret, parseVars>>

Next ==
    \/ \E n \in 0..MaxCount : CallDirect(n)
    \/ CallDirectDefault
    \/ \E o \in ClientOps, r \in {DefaultRetries} \cup 1..MaxCount : CallOperation(o, r)
    \/ Loop
    \/ AttemptOk
    \/ \E e \in Failures : AttemptFail(e)
    \/ AttemptOther
    \/ Finish

Spec == Init /\ [][Next]_vars

----------------------------------------------------------------------------
(* Vocabulary of the parser's properties.  A name is read as the parser   *)
(* reads it: after the removal of the characters above code point 256,    *)
(* and "begins with" is tested on the trimmed name.                       *)

Done == ppc = "done"

Clean == StripUnicode(name)

BeginsWith(p) == StartsWith(Strip(Clean), p)

\* a field of the result as the specification normalises it: trimmed,
\* lower case, absent rather than empty
ExpectField(s) ==
    LET t == Lower(Strip(s))
    IN  IF t = <<>> THEN None ELSE t

Occurrences(s, sub) ==
    {k \in 1..(Len(s) - Len(sub) + 1) : SubSeq(s, k, k + Len(sub) - 1) = sub}

Without(s, c) == SelectSeq(s, LAMBDA x : x # c)

FlagsAllFalse == ~res.isStatTrak /\ ~res.isHolographic /\ ~res.isMusicKit

\* "<item> | <skin> (<wear>": exactly one " | ", exactly one "(", after it
TwoPartForm ==
    /\ Cardinality(Occurrences(Clean, SpacedPipe)) = 1
    /\ Cardinality(Occurrences(Clean, LParen)) = 1
    /\ Find(Clean, LParen) > Find(Clean, SpacedPipe)

ItemText == SubSeq(Clean, 1, Find(Clean, SpacedPipe) - 1)
SkinText == SubSeq(Clean, Find(Clean, SpacedPipe) + 3, Find(Clean, LParen) - 1)
WearText == SubSeq(Clean, Find(Clean, LParen) + 1, Len(Clean))

\* in "StatTrak <weapon> | ...", the weapon: the words after the marker
WeaponText == SubSeq(ItemText, Len(StatTrak) + 2, Len(ItemText))

\* the text after the first pipe
AfterFirstPipe == SubSeq(Clean, Find(Clean, Pipe) + 1, Len(Clean))

----------------------------------------------------------------------------
(* C1: parse_item_name returns a result record and never raises, for      *)
(* every input string.                                                     *)
C1_NeverRaises == Done => res.exc = "none"

(* C7: for every name "StatTrak<marker> <weapon> | <skin> (<wear>)" with   *)
(* a weapon of one or more words, the result has isStatTrak true and the   *)
(* whole lower-cased weapon name as its category.                          *)
C7_StatTrakWholeWeapon ==
    (/\ Done
     /\ StartsWith(Clean, StatTrak \o Space)
     /\ TwoPartForm
     /\ WeaponText # <<>>
     /\ Strip(WeaponText) = WeaponText
     /\ ~Contains(WeaponText, Space \o Space))
    => /\ res.exc = "none"
       /\ res.isStatTrak
       /\ res.category = ExpectField(WeaponText)
       /\ res.skin = ExpectField(SkinText)
       /\ res.wear = ExpectField(Without(WearText, ")"))

(* C8: for every name that begins with "Sticker" and whose text after the  *)
(* first pipe contains "(holo)", the result has category "sticker",        *)
(* isHolographic true and the text without "(holo)", trimmed and lower     *)
(* case, as its skin; for Sticker names without "(holo)" isHolographic is  *)
(* false.                                                                  *)
C8_StickerHolo ==
    (Done /\ BeginsWith(Sticker) /\ Contains(Clean, Pipe))
    => IF Contains(AfterFirstPipe, Holo)
       THEN /\ res.exc = "none"
            /\ res.category = sticker
            /\ res.isHolographic
            /\ res.skin = ExpectField(Replace(AfterFirstPipe, Holo, <<>>))
       ELSE res.exc = "none" /\ ~res.isHolographic

----------------------------------------------------------------------------
(* Vocabulary of the retry properties *)

\* retry_request has returned or raised
Ended == rpc \in {"returned", "raised", "finished"}

\* every invocation of the action so far failed with a transport error or
\* an HTTP error status
AllFailed == \A k \in 1..Len(hist) : hist[k] \in Failures

(* C2: retry_request with count = N >= 1 and an action whose every attempt *)
(* fails with a transport error or an HTTP error status invokes the action *)
(* exactly N times, then returns None, and never raises.                   *)
C2_ExhaustionReturnsNone ==
    (AllFailed /\ count >= 1)
    => /\ calls <= count
       /\ rpc # "raised"
       /\ Ended => (calls = count /\ ret = None)

\* three attempts failed, with both kinds of failure, and None was returned
C2_Witness ==
    /\ op = "direct" /\ rpc = "returned" /\ count = 3
    /\ AllFailed /\ calls = 3 /\ ret = None
    /\ \E j, k \in 1..Len(hist) : hist[j] # hist[k]

(* C3: with an action that fails on its first k-1 attempts and succeeds on *)
(* attempt k <= N, retry_request returns the response of attempt k, has    *)
(* invoked the action exactly k times, never invokes it after the success, *)
(* and has slept at least k-1 times.                                       *)
C3_SuccessStopsRetrying ==
    \A k \in 1..Len(hist) :
        hist[k] = "ok"
        => /\ k = Len(hist)
           /\ k <= count
           /\ \A j \in 1..(k - 1) : hist[j] \in Failures
           /\ rpc \in {"returned", "finished"}
           /\ ret = Response(k)
           /\ calls = k
           /\ sleeps >= k - 1

\* fail, fail, succeed with count = 3
C3_Witness ==
    /\ op = "direct" /\ rpc = "returned" /\ count = 3
    /\ Len(hist) = 3 /\ hist[1] \in Failures /\ hist[2] \in Failures /\ hist[3] = "ok"
    /\ ret = Response(3) /\ calls = 3 /\ sleeps = 2

(* C4: after a failed attempt retry_request sleeps only when another       *)
(* attempt follows, so an always-failing action with count = N causes      *)
(* exactly N-1 sleeps (none when N = 1).                                   *)
C4_NoSleepAfterLastAttempt ==
    (rpc = "returned" /\ ret = None /\ AllFailed /\ count >= 1)
    => sleeps = count - 1

(* C5: a request issued through a SteamMarketAPI built with its default    *)
(* retries setting is attempted 5 times when every attempt fails, whereas  *)
(* a direct retry_request call with no count is attempted once.            *)
C5_MarketClientTriesFiveTimes ==
    /\ (op \in MarketOps /\ retries = DefaultRetries /\ Ended /\ AllFailed)
       => calls = DefaultRetries
    /\ (op = "direct_default" /\ Ended /\ AllFailed) => calls = 1

(* C6: whenever retry_request returns None inside a client operation, the  *)
(* operation raises SteamAPIError with a message naming the failed         *)
(* operation and its key; none returns normally or raises another type.    *)
C6_AbsentResultRaisesSteamAPIError ==
    (op \in ClientOps /\ rpc = "finished" /\ ret = None)
    => /\ opOut.kind = "raised"
       /\ opOut.exc = "SteamAPIError"
       /\ opOut.namesOp /\ opOut.namesKey

====
